---- MODULE Spec2Model ----
(***************************************************************************)
(* A model of fileslice's FileSlice (src/src/lib.rs): byte-range windows   *)
(* onto one shared, reference-counted file descriptor.                     *)
(*                                                                         *)
(* Scaling.  The code's offsets are u64 and its seek arguments i64.  The   *)
(* model keeps the same arithmetic on a narrow word: u64 is 0..MaxU64,     *)
(* i64 is I64Min..I64Max (two's complement of that word), and the i128 that *)
(* seek widens to is the unbounded Int (u64 + i64 never overflows i128).   *)
(* An unsigned add or subtract that leaves 0..MaxU64 panics when the build *)
(* has overflow checks (debug) and wraps modulo MaxU64 + 1 when it has     *)
(* none (release); which build runs is fixed in Init.  usize is as wide as  *)
(* u64 (a 64-bit target).                                                  *)
(***************************************************************************)
EXTENDS Integers, FiniteSets, Sequences

\* Largest value of the model's u64.
MaxU64 == 5
\* Number of FileSlice values that can be alive at once.
MaxViews == 2
\* Largest buffer handed to read.
MaxBuf == 2
\* Number of calls in one run.
MaxOps == 3
\* Largest number of entries in an archive.
MaxEntries == 2

Modulus == MaxU64 + 1
\* Two's complement: i64 is -(Modulus / 2) .. Modulus / 2 - 1.
I64Max == (Modulus \div 2) - 1
I64Min == 0 - (Modulus \div 2)
U64 == 0..MaxU64
I64 == I64Min..I64Max
\* A regular file's length is an off_t: it never exceeds I64Max.
FileLens == 0..I64Max
ViewIds == 1..MaxViews
BufLens == 0..MaxBuf

\* usize::MAX of the target: usize is as wide as u64.
UsizeMax == MaxU64
\* isize::MAX, the largest capacity a Vec<u8> can have.
IsizeMax == I64Max

VARIABLES
    overflowChecks, \* the build: TRUE = overflow checks on (debug profile)
    tar,            \* the iterator slice_tarball returned, or NoTar
    fileLen,        \* the file's live length, as metadata().len() reports it
    fd,             \* who holds the descriptor: "caller", "arc", "closed"
    fdPos,          \* the descriptor's own (kernel) file position
    strong,         \* the Arc<File>'s strong count
    views,          \* ViewIds -> FileSlice value (or NoView)
    ops,            \* calls made so far
    last            \* the last call: its operand, outcome and return value

vars == <<overflowChecks, tar, fileLen, fd, fdPos, strong, views, ops, last>>

\* struct FileSlice { file, cursor, start, end }.  obs is a history field:
\* the file length seen by the new() or expand() that last set this window
\* (inherited by clones and slices).
NoView == [alive |-> FALSE, cursor |-> 0, start |-> 0, end |-> 0, obs |-> 0]
MkView(c, s, e, o) == [alive |-> TRUE, cursor |-> c, start |-> s, end |-> e, obs |-> o]

Min(a, b) == IF a < b THEN a ELSE b
Max(a, b) == IF a > b THEN a ELSE b

\* u64 arithmetic: the wrapped result, and whether it left 0..MaxU64.
WrapAdd(a, b) == (a + b) % Modulus
AddOverflows(a, b) == a + b > MaxU64
WrapSub(a, b) == (a - b) % Modulus
SubOverflows(a, b) == a < b

\* std::ops::Bound<u64>
Bounds == {<<"Unbounded", 0>>} \cup ({"Included", "Excluded"} \X U64)
\* The bounds the runs draw.  As a start Excluded(x) is Included(x + 1), and
\* as an end Included(x) is Excluded(x + 1), sum for sum, except at MaxU64
\* where the + 1 itself overflows: those forms are drawn there.
LoBounds == {b \in Bounds : b[1] = "Excluded" => b[2] = MaxU64}
HiBounds == {b \in Bounds : b[1] = "Included" => b[2] = MaxU64}

\* The record of a call.  Unused fields are 0.
\*   v: the view operated on      w: the view produced (slice, clone)
\*   res: "ok", "err" (an Err returned), "panic", "abort" (the process
\*        aborted), "none" (an iterator's end)
\*   ret: the value returned (get_bytes: the number of bytes)
\*   tgt: seek's target before narrowing; get_bytes: the offset read from
\*   tar_next: ret the entry's index, tgt and off the start and end
\*        collected for it, n the size field of the header yielded
\*   off: the offset of the positional read issued; get_read, get_bytes: the
\*        start passed
\*   n: the length of the buffer the caller passed; get_bytes: the length
Call(op, v, w, res, ret, tgt, off, n) ==
    [op |-> op, v |-> v, w |-> w, res |-> res, ret |-> ret, tgt |-> tgt,
     off |-> off, n |-> n]

\* The iterator slice_tarball returns (lines 232-234): the root FileSlice
\* its closure owns, the collected (header, start, end) triples, a header
\* standing for the size field it holds (with, for the record, the
\* entry.size() that end was computed from), and the number of them mapped
\* so far.
NoTar == [root |-> NoView, headers |-> <<>>, done |-> 0]

Living == {v \in ViewIds : views[v].alive}
FreeIds == ViewIds \ Living
\* The slot a newly made FileSlice takes.
NextId == CHOOSE i \in FreeIds : \A j \in FreeIds : i <= j

\* Every call counts against the run's budget.
Tick == ops < MaxOps /\ ops' = ops + 1

\* The state right after FileSlice::new(file) returned, on a file of any
\* length and under either build.
Init ==
    /\ overflowChecks \in BOOLEAN
    /\ tar = NoTar
    /\ fileLen \in FileLens
    /\ fd = "arc"
    /\ fdPos = 0
    /\ strong = 1
    /\ views = [v \in ViewIds |-> IF v = 1 THEN MkView(0, 0, fileLen, fileLen) ELSE NoView]
    /\ ops = 0
    /\ last = Call("new", 0, 1, "ok", 0, 0, 0, 0)

\* File::open: the caller opens the file again after the descriptor was closed.
Open ==
    /\ Tick
    /\ fd = "closed"
    /\ fd' = "caller"
    /\ fdPos' = 0
    /\ last' = Call("open", 0, 0, "ok", 0, 0, 0, 0)
    /\ UNCHANGED <<overflowChecks, tar, fileLen, strong, views>>

\* Another process appends to or truncates the file.
FileResize(len) ==
    /\ Tick
    /\ len # fileLen
    /\ fileLen' = len
    /\ last' = Call("resize", 0, 0, "ok", 0, 0, 0, 0)
    /\ UNCHANGED <<overflowChecks, tar, fd, fdPos, strong, views>>

\* FileSlice::new.  metadata() failing makes unwrap() panic; the File, moved
\* into new, is dropped by the unwind and the descriptor closed.
New(osOk) ==
    /\ Tick
    /\ fd = "caller"
    /\ IF osOk
       THEN /\ views' = [views EXCEPT ![1] = MkView(0, 0, fileLen, fileLen)]
            /\ strong' = 1
            /\ fd' = "arc"
            /\ last' = Call("new", 0, 1, "ok", 0, 0, 0, 0)
       ELSE /\ fd' = "closed"
            /\ last' = Call("new", 0, 0, "panic", 0, 0, 0, 0)
            /\ UNCHANGED <<strong, views>>
    /\ UNCHANGED <<overflowChecks, tar, fileLen, fdPos>>

\* slice: the requested start, relative to self (lines 66-70).
SliceStart(self, lo) ==
    CASE lo[1] = "Included" -> WrapAdd(self.start, lo[2])
      [] lo[1] = "Excluded" -> WrapAdd(WrapAdd(self.start, lo[2]), 1)
      [] OTHER -> self.start
SliceStartOverflows(self, lo) ==
    CASE lo[1] = "Included" -> AddOverflows(self.start, lo[2])
      [] lo[1] = "Excluded" -> AddOverflows(self.start, lo[2] + 1)
      [] OTHER -> FALSE

\* A slice that takes an excluded end as an included one.
SliceRawEndInclusive(self, hi) ==
    CASE hi[1] = "Unbounded" -> self.end
      [] OTHER -> WrapAdd(WrapAdd(self.start, hi[2]), 1)

\* slice: the requested end, before clamping (lines 71-75).
SliceRawEnd(self, hi) ==
    CASE hi[1] = "Included" -> WrapAdd(WrapAdd(self.start, hi[2]), 1)
      [] hi[1] = "Excluded" -> WrapAdd(self.start, hi[2])
      [] OTHER -> self.end
SliceRawEndOverflows(self, hi) ==
    CASE hi[1] = "Included" -> AddOverflows(self.start, hi[2] + 1)
      [] hi[1] = "Excluded" -> AddOverflows(self.start, hi[2])
      [] OTHER -> FALSE

SliceOverflows(self, lo, hi) ==
    SliceStartOverflows(self, lo) \/ SliceRawEndOverflows(self, hi)

\* A slice that clamps to the parent's end but forgets the floor at start.
SliceEndNoFloor(self, start, rawEnd) == Min(rawEnd, self.end)

\* slice: end.min(self.end).max(start) (lines 76-78).
SliceEnd(self, start, rawEnd) == Max(Min(rawEnd, self.end), start)

\* The FileSlice that self.slice(lo, hi) returns (lines 79-84).
SliceOf(self, lo, hi) ==
    LET start == SliceStart(self, lo)
        end == SliceEnd(self, start, SliceRawEnd(self, hi))
    IN MkView(start, start, end, self.obs)

\* FileSlice::slice: an overflowing add panics under overflow checks;
\* otherwise the Arc is cloned (strong + 1) and the child returned.
Slice(v, lo, hi) ==
    /\ Tick
    /\ v \in Living
    /\ FreeIds # {}
    /\ IF overflowChecks /\ SliceOverflows(views[v], lo, hi)
       THEN /\ last' = Call("slice", v, 0, "panic", 0, 0, 0, 0)
            /\ UNCHANGED <<strong, views>>
       ELSE /\ views' = [views EXCEPT ![NextId] = SliceOf(views[v], lo, hi)]
            /\ strong' = strong + 1
            /\ last' = Call("slice", v, NextId, "ok", 0, 0, 0, 0)
    /\ UNCHANGED <<overflowChecks, tar, fileLen, fd, fdPos>>

\* #[derive(Clone)]: every field copied, the Arc's strong count incremented.
Clone(v) ==
    /\ Tick
    /\ v \in Living
    /\ FreeIds # {}
    /\ views' = [views EXCEPT ![NextId] = views[v]]
    /\ strong' = strong + 1
    /\ last' = Call("clone", v, NextId, "ok", 0, 0, 0, 0)
    /\ UNCHANGED <<overflowChecks, tar, fileLen, fd, fdPos>>

\* A release that closes the descriptor one holder too early.
FdAfterReleaseEarly(count) == IF count <= 2 THEN "closed" ELSE "arc"

\* What dropping one Arc<File> does to the descriptor: the File is dropped,
\* and so closed, by the drop that takes the strong count to zero.
FdAfterRelease(count) == IF count = 1 THEN "closed" ELSE "arc"

\* Dropping a FileSlice drops its Arc<File>.
Drop(v) ==
    /\ Tick
    /\ v \in Living
    /\ views' = [views EXCEPT ![v] = NoView]
    /\ strong' = strong - 1
    /\ fd' = FdAfterRelease(strong)
    /\ last' = Call("drop", v, 0, "ok", 0, 0, 0, 0)
    /\ UNCHANGED <<overflowChecks, tar, fileLen, fdPos>>

\* The requests the kernel accepts: read_at passes `offset as i64` to pread,
\* which rejects (EINVAL) a negative offset whatever the length, and a
\* request whose last byte would lie beyond offset i64::MAX.
PReadOffsetOk(off, len) == off + len <= I64Max

\* read_at(buf[..len], off) on a file of length flen: the possible outcomes,
\* -1 standing for an Err.  A request the kernel rejects fails; otherwise a
\* zero-length request returns 0; past the end of the file the kernel
\* returns 0; otherwise it returns between 1 and the bytes available (a
\* short read), or fails (EIO).
PRead(len, off, flen) ==
    IF ~PReadOffsetOk(off, len) THEN {0 - 1}
    ELSE IF len = 0 \/ off >= flen THEN {0}
    ELSE {0 - 1} \cup (1..Min(len, flen - off))

\* `x as usize`: the low bits of x that fit the target's usize.
AsUsize(x) == x % (UsizeMax + 1)

\* read: remaining = (self.end - self.cursor) as usize (line 109).
ReadRemaining(self) == AsUsize(WrapSub(self.end, self.cursor))
ReadRemainingOverflows(self) == SubOverflows(self.end, self.cursor)

\* A read that hands the caller's whole buffer to read_at.
ReadLenWhole(self, n) == n

\* read: the length of the buffer handed to read_at (lines 110-114).
ReadLen(self, n) == IF n > ReadRemaining(self) THEN ReadRemaining(self) ELSE n

\* A read that consumes the window as it goes, as Read for &[u8] does.
ReadAdvanceConsuming(self, x) ==
    [self EXCEPT !.cursor = WrapAdd(self.cursor, x), !.start = WrapAdd(self.start, x)]

\* read: self.cursor += x (line 133).
ReadAdvance(self, x) == [self EXCEPT !.cursor = WrapAdd(self.cursor, x)]

\* A read at the descriptor's own position (read after seek on the fd).
ReadOffsetShared(self, pos) == pos

\* read: the offset handed to read_at (line 120): the view's own cursor; the
\* descriptor's position pos plays no part.
ReadOffset(self, pos) == self.cursor

\* <FileSlice as Read>::read with a buffer of n bytes (a buffer is never
\* longer than usize::MAX).  end - cursor panics
\* under overflow checks when cursor > end and wraps otherwise.  The read is
\* positional: the descriptor's own position is neither used nor moved.
Read(v, n) ==
    /\ Tick
    /\ v \in Living
    /\ n <= UsizeMax
    /\ LET self == views[v]
           off == ReadOffset(self, fdPos)
       IN
       IF overflowChecks /\ ReadRemainingOverflows(self)
       THEN /\ last' = Call("read", v, 0, "panic", 0, 0, off, n)
            /\ UNCHANGED views
       ELSE \E x \in PRead(ReadLen(self, n), off, fileLen) :
            IF x < 0
            THEN /\ last' = Call("read", v, 0, "err", 0, 0, off, n)
                 /\ UNCHANGED views
            ELSE /\ views' = [views EXCEPT ![v] = ReadAdvance(self, x)]
                 /\ last' = Call("read", v, 0, "ok", x, 0, off, n)
    /\ UNCHANGED <<overflowChecks, tar, fileLen, fd, fdPos, strong>>

\* std::io::SeekFrom
SeekFroms == ({"Start"} \X U64) \cup ({"Current", "End"} \X I64)

\* The offset a seek asks for, as a mathematical integer.
SeekIntent(self, pos) ==
    CASE pos[1] = "Start" -> self.start + pos[2]
      [] pos[1] = "Current" -> self.cursor + pos[2]
      [] OTHER -> self.end + pos[2]

\* seek: the i128 target (lines 140-144).  Start adds in u64 before widening.
SeekTarget(self, pos) ==
    CASE pos[1] = "Start" -> WrapAdd(self.start, pos[2])
      [] pos[1] = "Current" -> self.cursor + pos[2]
      [] OTHER -> self.end + pos[2]
SeekOverflows(self, pos) == pos[1] = "Start" /\ AddOverflows(self.start, pos[2])

\* A seek that only checks that the target is a u64.
SeekInBoundsNoFloor(self, t) == t >= 0 /\ t <= MaxU64

\* seek: u64::try_from(cursor) is Ok(x) with x >= self.start (lines 145-146).
SeekInBounds(self, t) == t >= 0 /\ t <= MaxU64 /\ t >= self.start

\* A position that is the absolute file offset.
StreamPosAbsolute(self) == self.cursor

\* stream_position: self.cursor - self.start (line 159).
StreamPos(self) == WrapSub(self.cursor, self.start)

\* <FileSlice as Seek>::seek
Seek(v, pos) ==
    /\ Tick
    /\ v \in Living
    /\ LET self == views[v]
           t == SeekTarget(self, pos)
           want == SeekIntent(self, pos)
       IN IF overflowChecks /\ SeekOverflows(self, pos)
          THEN /\ last' = Call("seek", v, 0, "panic", 0, want, 0, 0)
               /\ UNCHANGED views
          ELSE IF SeekInBounds(self, t)
          THEN /\ views' = [views EXCEPT ![v].cursor = t]
               /\ last' = Call("seek", v, 0, "ok", StreamPos(views'[v]), want, 0, 0)
          ELSE /\ last' = Call("seek", v, 0, "err", 0, want, 0, 0)
               /\ UNCHANGED views
    /\ UNCHANGED <<overflowChecks, tar, fileLen, fd, fdPos, strong>>

\* <FileSlice as Seek>::stream_position: a pure query.
StreamPosition(v) ==
    /\ Tick
    /\ v \in Living
    /\ last' = Call("stream_position", v, 0, "ok", StreamPos(views[v]), 0, 0, 0)
    /\ UNCHANGED <<overflowChecks, tar, fileLen, fd, fdPos, strong, views>>

\* <FileSlice as Length>::len: self.end - self.cursor (line 198).
ViewLen(self) == WrapSub(self.end, self.cursor)

\* <FileSlice as Length>::len as a call: the subtraction panics under
\* overflow checks when the cursor is beyond end, and wraps otherwise.
Length(v) ==
    /\ Tick
    /\ v \in Living
    /\ IF overflowChecks /\ SubOverflows(views[v].end, views[v].cursor)
       THEN last' = Call("len", v, 0, "panic", 0, 0, 0, 0)
       ELSE last' = Call("len", v, 0, "ok", ViewLen(views[v]), 0, 0, 0)
    /\ UNCHANGED <<overflowChecks, tar, fileLen, fd, fdPos, strong, views>>

\* <FileSlice as ChunkReader>::get_read: self.slice(start..self.end), the
\* absolute end handed over as a relative one (line 206).
GetRead(v, start) ==
    /\ Tick
    /\ v \in Living
    /\ FreeIds # {}
    /\ LET self == views[v]
           lo == <<"Included", start>>
           hi == <<"Excluded", self.end>>
       IN IF overflowChecks /\ SliceOverflows(self, lo, hi)
          THEN /\ last' = Call("get_read", v, 0, "panic", 0, 0, start, 0)
               /\ UNCHANGED <<strong, views>>
          ELSE /\ views' = [views EXCEPT ![NextId] = SliceOf(self, lo, hi)]
               /\ strong' = strong + 1
               /\ last' = Call("get_read", v, NextId, "ok", 0, 0, start, 0)
    /\ UNCHANGED <<overflowChecks, tar, fileLen, fd, fdPos>>

\* Read::read_exact on the view c for need bytes (line 212): read until the
\* buffer is full; a read that returns 0 first is the UnexpectedEof error,
\* a failing read its error.  The set of possible results.
RECURSIVE ReadExact(_, _)
ReadExact(c, need) ==
    IF need = 0 THEN {"ok"}
    ELSE UNION {IF x <= 0 THEN {"err"} ELSE ReadExact(ReadAdvance(c, x), need - x) :
                    x \in PRead(ReadLen(c, need), ReadOffset(c, fdPos), fileLen)}

\* get_bytes: the end of the range sliced, start + length as u64 (line 211).
GetBytesEnd(start, length) == WrapAdd(start, length)

\* <FileSlice as ChunkReader>::get_bytes.  vec![0; length] panics with a
\* capacity overflow beyond isize::MAX, and below that aborts the process
\* when the allocator does not grant the buffer (allocOk = FALSE: that
\* depends on the machine's memory, not on the length alone; an empty
\* buffer is not allocated); start + length and the additions of
\* slice panic under overflow checks and wrap otherwise; the temporary view
\* lives for the call only, so the strong count ends as it began, and self
\* is borrowed shared: nothing of it is assigned.
GetBytes(v, start, length, allocOk) ==
    /\ Tick
    /\ v \in Living
    /\ length <= UsizeMax
    /\ length = 0 => allocOk
    /\ LET self == views[v]
           lo == <<"Included", start>>
           hi == <<"Excluded", GetBytesEnd(start, length)>>
           c == SliceOf(self, lo, hi)
       IN IF length > IsizeMax
          THEN last' = Call("get_bytes", v, 0, "panic", 0, 0, start, length)
          ELSE IF ~allocOk
          THEN last' = Call("get_bytes", v, 0, "abort", 0, 0, start, length)
          ELSE IF \/ overflowChecks /\ AddOverflows(start, length)
                  \/ overflowChecks /\ SliceOverflows(self, lo, hi)
          THEN last' = Call("get_bytes", v, 0, "panic", 0, 0, start, length)
          ELSE \E r \in ReadExact(c, length) :
                last' = Call("get_bytes", v, 0, r,
                             IF r = "ok" THEN length ELSE 0, c.start, start, length)
    /\ UNCHANGED <<overflowChecks, tar, fileLen, fd, fdPos, strong, views>>

\* An expand that keeps the start the view had.
ExpandStartKept(self) == self

\* expand: self.start = 0 (line 171).
ExpandStart(self) == [self EXCEPT !.start = 0]
\* expand: self.end = metadata().len() (line 172).
ExpandEnd(self, len) == [self EXCEPT !.end = len, !.obs = len]

\* FileSlice::expand.  start is reset before the length is queried, so a
\* failing metadata() panics with start already 0 and end as it was.
Expand(v, osOk) ==
    /\ Tick
    /\ v \in Living
    /\ IF osOk
       THEN /\ views' = [views EXCEPT ![v] = ExpandEnd(ExpandStart(views[v]), fileLen)]
            /\ last' = Call("expand", v, 0, "ok", 0, 0, 0, 0)
       ELSE /\ views' = [views EXCEPT ![v] = ExpandStart(views[v])]
            /\ last' = Call("expand", v, 0, "panic", 0, 0, 0, 0)
    /\ UNCHANGED <<overflowChecks, tar, fileLen, fd, fdPos, strong>>

\* An unwrap that also succeeds with one other holder alive.
ArcIsUniqueOrPair(count) == count <= 2

\* Arc::try_unwrap succeeds when the strong count is exactly one.
ArcIsUnique(count) == count = 1

\* try_unwrap's Err value: a FileSlice rebuilt around the same Arc
\* (lines 181-186).
TryUnwrapErr(self) == MkView(self.cursor, self.start, self.end, self.obs)

\* FileSlice::try_unwrap.  Ok hands the File, still open, to the caller;
\* Err hands back a FileSlice, which keeps the slot of the one passed in.
TryUnwrap(v) ==
    /\ Tick
    /\ v \in Living
    /\ IF ArcIsUnique(strong)
       THEN /\ views' = [views EXCEPT ![v] = NoView]
            /\ strong' = 0
            /\ fd' = "caller"
            /\ last' = Call("try_unwrap", v, 0, "ok", 0, 0, 0, 0)
       ELSE /\ views' = [views EXCEPT ![v] = TryUnwrapErr(views[v])]
            /\ last' = Call("try_unwrap", v, v, "err", 0, 0, 0, 0)
            /\ UNCHANGED <<strong, fd>>
    /\ UNCHANGED <<overflowChecks, tar, fileLen, fdPos>>

Next ==
    \/ Open
    \/ \E len \in FileLens : FileResize(len)
    \/ \E osOk \in BOOLEAN : New(osOk)
    \/ \E v \in ViewIds, lo \in LoBounds, hi \in HiBounds : Slice(v, lo, hi)
    \/ \E v \in ViewIds : Clone(v)
    \/ \E v \in ViewIds, n \in BufLens : Read(v, n)
    \/ \E v \in ViewIds, pos \in SeekFroms : Seek(v, pos)
    \/ \E v \in ViewIds, osOk \in BOOLEAN : Expand(v, osOk)
    \/ \E v \in ViewIds : TryUnwrap(v)
    \/ \E v \in ViewIds : Drop(v)

Spec == Init /\ [][Next]_vars

\* The views as Read + Seek streams: sliced, expanded, read, positioned and
\* asked for their position.
NextSeek ==
    \/ \E v \in ViewIds, lo \in LoBounds, hi \in HiBounds : Slice(v, lo, hi)
    \/ \E v \in ViewIds, osOk \in BOOLEAN : Expand(v, osOk)
    \/ \E v \in ViewIds, n \in BufLens : Read(v, n)
    \/ \E v \in ViewIds, pos \in SeekFroms : Seek(v, pos)
    \/ \E v \in ViewIds : StreamPosition(v)

SpecSeek == Init /\ [][NextSeek]_vars

\* What entries_with_seek reports of an archive in a file of length len: for
\* each entry, in archive order, the raw file position of its payload,
\* entry.size(), and the size field of its header.  A payload starts inside
\* the file, not before the one before it; entry.size() is any u64: for a
\* sparse entry the expanded size, which can reach beyond the next entry and
\* beyond the file, as can the payload of an archive cut short; the header's
\* field is any u64 too, and differs from entry.size() when a PAX extended
\* header overrides the size.  The 512-byte headers between the payloads
\* are scaled to nothing.
TarEntries(len) == (0..len) \X U64 \X U64
ArchivesOf(entries) ==
    {a \in UNION {[1..k -> entries] : k \in 0..MaxEntries} :
        \A i \in 1..(Len(a) - 1) : a[i][1] <= a[i + 1][1]}
Archives(len) == ArchivesOf(TarEntries(len))

\* The archives the runs draw.  slice_tarball computes nothing from the
\* header's size field, it only hands the header on: the field is drawn
\* equal to entry.size(), below it (0) and above it (MaxU64).
DrawnArchives(len) ==
    ArchivesOf({e \in TarEntries(len) : e[3] \in {0, e[2], MaxU64}})

\* How a call of slice_tarball goes: the archive was walked before
\* (entries_with_seek returns Err, line 223), an entry is malformed
\* (entry.unwrap() panics, line 225), the length query of FileSlice::new
\* fails (panic, line 231), or none of these.
TarHows == {"ok", "walked", "malformed", "nolen"}

\* Where the archive pass can leave the descriptor's own position.
FilePositions == 0..I64Max

\* slice_tarball: end = start + entry.size() (line 227).
TarEnd(start, size) == WrapAdd(start, size)

\* slice_tarball on an archive a.  The single pass collects (header, start,
\* end) per entry (lines 222-230), the header cloned from the entry (its
\* size field is `size`) and end computed from entry.size(), which the
\* triple does not keep (`esize` records it), an overflowing start +
\* entry.size() panicking
\* under overflow checks, and leaves the descriptor's position at p, where
\* it stopped reading; then FileSlice::new takes the File out of the archive
\* and queries its length (line 231), which is len by then: another process
\* may have resized the file since the pass.  The iterator returned owns
\* that root view and has mapped nothing yet.  On an Err and on a panic the
\* archive, and the File in it, is dropped.
SliceTarball(a, how, len, p) ==
    /\ Tick
    /\ fd = "caller"
    /\ ~tar.root.alive
    /\ IF how = "walked"
       THEN /\ fd' = "closed"
            /\ last' = Call("slice_tarball", 0, 0, "err", 0, 0, 0, 0)
            /\ UNCHANGED <<tar, strong>>
       ELSE IF \/ how \in {"malformed", "nolen"}
               \/ overflowChecks /\ \E i \in 1..Len(a) : AddOverflows(a[i][1], a[i][2])
       THEN /\ fd' = "closed"
            /\ last' = Call("slice_tarball", 0, 0, "panic", 0, 0, 0, 0)
            /\ UNCHANGED <<tar, strong>>
       ELSE /\ fd' = "arc"
            /\ strong' = 1
            /\ tar' = [root |-> MkView(0, 0, len, len),
                       headers |-> [i \in 1..Len(a) |->
                                      [size |-> a[i][3],
                                       esize |-> a[i][2],
                                       start |-> a[i][1],
                                       end |-> TarEnd(a[i][1], a[i][2])]],
                       done |-> 0]
            /\ last' = Call("slice_tarball", 0, 0, "ok", Len(a), 0, 0, 0)
    /\ fileLen' = len
    /\ fdPos' = IF how = "walked" THEN fdPos ELSE p
    /\ UNCHANGED <<overflowChecks, views>>

\* next() on the iterator returned: the next triple is mapped to
\* (header, file.slice(start..end)) (line 234); None after the last.
TarNext ==
    /\ Tick
    /\ tar.root.alive
    /\ IF tar.done = Len(tar.headers)
       THEN /\ last' = Call("tar_next", 0, 0, "none", 0, 0, 0, 0)
            /\ UNCHANGED <<tar, strong, views>>
       ELSE /\ FreeIds # {}
            /\ LET h == tar.headers[tar.done + 1]
                   lo == <<"Included", h.start>>
                   hi == <<"Excluded", h.end>>
               IN IF overflowChecks /\ SliceOverflows(tar.root, lo, hi)
                  THEN /\ last' = Call("tar_next", 0, 0, "panic", 0, h.start, h.end, h.size)
                       /\ UNCHANGED <<strong, views>>
                  ELSE /\ views' = [views EXCEPT ![NextId] = SliceOf(tar.root, lo, hi)]
                       /\ strong' = strong + 1
                       /\ last' = Call("tar_next", 0, NextId, "ok", tar.done + 1,
                                       h.start, h.end, h.size)
            /\ tar' = [tar EXCEPT !.done = tar.done + 1]
    /\ UNCHANGED <<overflowChecks, fileLen, fd, fdPos>>

\* The iterator is dropped, and with it the root view its closure owns.
TarDrop ==
    /\ Tick
    /\ tar.root.alive
    /\ tar' = NoTar
    /\ strong' = strong - 1
    /\ fd' = FdAfterRelease(strong)
    /\ last' = Call("tar_drop", 0, 0, "ok", 0, 0, 0, 0)
    /\ UNCHANGED <<overflowChecks, fileLen, fdPos, views>>

\* Before slice_tarball: the File has been opened and wrapped in an Archive
\* (examples/tarquet.rs lines 10-11); there is no view yet.
InitTar ==
    /\ overflowChecks \in BOOLEAN
    /\ tar = NoTar
    /\ fileLen \in FileLens
    /\ fd = "caller"
    /\ fdPos = 0
    /\ strong = 0
    /\ views = [v \in ViewIds |-> NoView]
    /\ ops = 0
    /\ last = Call("open", 0, 0, "ok", 0, 0, 0, 0)

\* Reading a tarball: the archive is sliced, the iterator consumed, the
\* entries' views read and dropped, over a file whose length may change.
NextTar ==
    \/ \E len \in FileLens : FileResize(len)
    \/ /\ fd = "caller"
       /\ \E a \in DrawnArchives(fileLen), how \in TarHows, len \in FileLens, p \in FilePositions :
            SliceTarball(a, how, len, p)
    \/ TarNext
    \/ TarDrop
    \/ \E v \in ViewIds, n \in BufLens : Read(v, n)
    \/ \E v \in ViewIds : Drop(v)

SpecTar == InitTar /\ [][NextTar]_vars

\* A parquet reader's use of a file, through Length, ChunkReader and Read:
\* views are made with get_read, read with read, and asked for len and
\* get_bytes, over a file whose length may change.
NextParquet ==
    \/ \E len \in FileLens : FileResize(len)
    \/ \E v \in ViewIds, n \in BufLens : Read(v, n)
    \/ \E v \in ViewIds : Length(v)
    \/ \E v \in ViewIds, start \in U64 : GetRead(v, start)
    \/ \E v \in ViewIds, start \in U64, length \in BufLens, allocOk \in BOOLEAN :
            GetBytes(v, start, length, allocOk)
    \/ \E v \in ViewIds : Drop(v)

SpecParquet == Init /\ [][NextParquet]_vars

(***************************************************************************)
(* Properties                                                              *)
(***************************************************************************)

\* The view the last call operated on, and the view it produced.
Operand == views[last.v]
Produced == views[last.w]
SliceReturned == last.op = "slice" /\ last.res = "ok"

\* C1: the child returned by slice is contained in its parent:
\* p.start <= c.start <= c.end <= p.end, for every range.
C1_SliceContained ==
    SliceReturned =>
        /\ Operand.start <= Produced.start
        /\ Produced.start <= Produced.end
        /\ Produced.end <= Operand.end

\* C2: a seek whose target lies beyond end (and is an offset, a u64)
\* succeeds and puts the cursor on the target, and a read issued with cursor >= end returns 0 bytes, with
\* neither an error nor a panic.  (read leaves end alone, and a successful
\* seek start and end, so the fields read here are those before the call.)
C2_SeekPastEndThenReadZero ==
    /\ (last.op = "seek" /\ last.tgt > Operand.end /\ last.tgt \in U64) =>
            (last.res = "ok" /\ Operand.cursor = last.tgt)
    /\ (last.op = "read" /\ last.off >= Operand.end) =>
            (last.res = "ok" /\ last.ret = 0)

\* C3: a seek, in any form, whose target is below start returns the
\* out-of-bounds error and changes nothing of the view.
C3_SeekBeforeStartFails ==
    [][(last'.op = "seek" /\ last'.tgt < views[last'.v].start) =>
            (last'.res = "err" /\ views' = views)]_vars

\* C3 witness: a seek to a target below the window's start was refused.
C3_Witness ==
    /\ last.op = "seek"
    /\ last.res = "err"
    /\ last.tgt < Operand.start
    /\ Operand.start > 0

\* C4: the bytes a read returns come from offsets within [start, end), and a
\* read issued with cursor = end returns 0 without error and leaves the
\* cursor on end.
C4_ReadStaysInWindow ==
    /\ (last.op = "read" /\ last.res = "ok" /\ last.ret > 0) =>
            (Operand.start <= last.off /\ last.off + last.ret <= Operand.end)
    /\ (last.op = "read" /\ last.off = Operand.end) =>
            (last.res = "ok" /\ last.ret = 0 /\ Operand.cursor = Operand.end)

C6_TryUnwrapIffSole ==
    [][(last'.op = "try_unwrap") =>
            /\ last'.res = "ok" <=> Living = {last'.v}
            /\ last'.res = "ok" => (fd' = "caller" /\ Living' = {})
            /\ last'.res = "err" => (views' = views /\ fd' = fd)]_vars

\* C6 witness: try_unwrap was refused while a second view was alive.
C6_Witness ==
    /\ last.op = "try_unwrap"
    /\ last.res = "err"
    /\ Cardinality(Living) = 2

\* C7: the descriptor is open and shared while any view is alive, the drop
\* of a view closes it exactly when no view is left, and a successful
\* try_unwrap hands it to the caller open.
C7_ClosedWithLastHolder ==
    /\ Living # {} => fd = "arc"
    /\ last.op = "drop" => (fd = "closed" <=> Living = {})
    /\ (last.op = "try_unwrap" /\ last.res = "ok") => fd = "caller"

\* C7 witness: the drop of the last view closed the descriptor.
C7_Witness == last.op = "drop" /\ fd = "closed" /\ Living = {}

\* C8: every view has start <= end and cursor >= start.
C8_WindowOrdered ==
    \A v \in Living : views[v].start <= views[v].end /\ views[v].cursor >= views[v].start

\* C8 witness: slice returned a window starting beyond its parent's end, where
\* only the floor at start keeps start <= end.
C8_Witness == SliceReturned /\ Produced.start > Operand.end

\* C9: no view's end exceeds the file length seen by the new or the expand
\* its window comes from.
C9_EndWithinObservedLength == \A v \in Living : views[v].end <= views[v].obs

\* C10: start and end of a view change only by an expand of that view.
C10_OnlyExpandMovesWindow ==
    [][\A v \in ViewIds :
            (/\ views[v].alive
             /\ views'[v].alive
             /\ <<views'[v].start, views'[v].end>> # <<views[v].start, views[v].end>>)
            => (last'.op = "expand" /\ last'.v = v)]_vars

\* C10 witness: an expand moved one view's window while a sibling kept a
\* different one.
C10_Witness ==
    /\ last.op = "expand"
    /\ last.res = "ok"
    /\ \E u \in Living \ {last.v} : views[u].end # Operand.end

\* C11: a failing length query makes new and expand return that OS error
\* as the call's failure result: neither ends in a panic.
C11_LengthQueryFailureReturned ==
    last.op \in {"new", "expand"} => last.res \in {"ok", "err"}

\* C12: a seek whose mathematical target (start + x, cursor + x, end + x)
\* falls below 0 or above the largest u64 returns the out-of-bounds error
\* and changes nothing of the view, in every form.
C12_SeekOverflowDetected ==
    [][(last'.op = "seek" /\ last'.tgt \notin U64) =>
            (last'.res = "err" /\ views' = views)]_vars

\* C13: a successful seek returns the new cursor - start; stream_position
\* returns cursor - start and changes nothing; so a stream_position that
\* directly follows a successful seek on the same view returns what the seek
\* returned.
C13_PositionRelativeToStart ==
    [][/\ (last'.op = "seek" /\ last'.res = "ok") =>
            last'.ret = views'[last'.v].cursor - views'[last'.v].start
       /\ last'.op = "stream_position" =>
            /\ last'.res = "ok"
            /\ last'.ret = views[last'.v].cursor - views[last'.v].start
            /\ views' = views
       /\ (/\ last.op = "seek"
           /\ last.res = "ok"
           /\ last'.op = "stream_position"
           /\ last'.v = last.v) => last'.ret = last.ret]_vars

\* C13 witness: stream_position answered on a view whose start is not 0 and
\* whose cursor has moved off start: the answer is not the absolute offset.
C13_Witness ==
    /\ last.op = "stream_position"
    /\ Operand.start > 0
    /\ last.ret > 0
    /\ last.ret = Operand.cursor - Operand.start

\* C19: after expand the view has start = 0 and end = the file's length at
\* the call, whatever its window was; so expands either side of a change of
\* that length give different ends.
C19_ExpandResetsWindow ==
    (last.op = "expand" /\ last.res = "ok") =>
        (Operand.start = 0 /\ Operand.end = fileLen)

\* C19 witness: expand widened a narrowed view (its cursor is still where
\* the old start was) to a length that differs from the one another view
\* was built from.
C19_Witness ==
    /\ last.op = "expand"
    /\ last.res = "ok"
    /\ Operand.cursor > 0
    /\ Operand.start = 0
    /\ Operand.end = fileLen
    /\ \E w \in Living : views[w].obs # fileLen

\* C20: a read with a buffer of n bytes on a view with cursor <= end is one
\* positional read at offset cursor; it returns k <= min(n, end - cursor)
\* bytes and moves cursor by k, or returns the error and leaves cursor
\* alone.  No read changes start or end.
C20_ReadAtCursorBounded ==
    [][last'.op = "read" =>
        LET self == views[last'.v]
            after == views'[last'.v]
        IN /\ after.start = self.start
           /\ after.end = self.end
           /\ self.cursor <= self.end =>
                /\ last'.res \in {"ok", "err"}
                /\ last'.off = self.cursor
                /\ last'.res = "ok" =>
                     /\ last'.ret <= Min(last'.n, self.end - self.cursor)
                     /\ after.cursor = self.cursor + last'.ret
                /\ last'.res = "err" => after.cursor = self.cursor]_vars

\* C20 witness: a read returned fewer bytes than its buffer holds and the
\* cursor stands that many bytes after the offset read.
C20_Witness ==
    /\ last.op = "read"
    /\ last.res = "ok"
    /\ last.ret > 0
    /\ last.ret < last.n
    /\ Operand.cursor = last.off + last.ret
    /\ Operand.cursor <= Operand.end

\* The composition of two ranges, as the range to slice the original with:
\* R2's endpoints shifted by R1's start, intersected with R1.  Offsets are
\* mathematical integers here; an end is exclusive, Unbounded when neither
\* range has one.
RelStart(lo) ==
    CASE lo[1] = "Included" -> lo[2]
      [] lo[1] = "Excluded" -> lo[2] + 1
      [] OTHER -> 0
RelEnd(hi) == IF hi[1] = "Included" THEN hi[2] + 1 ELSE hi[2]
ComposedLo(lo1, lo2) == <<"Included", RelStart(lo1) + RelStart(lo2)>>
ComposedHi(lo1, hi1, hi2) ==
    CASE hi1[1] = "Unbounded" /\ hi2[1] = "Unbounded" -> <<"Unbounded", 0>>
      [] hi1[1] = "Unbounded" -> <<"Excluded", RelStart(lo1) + RelEnd(hi2)>>
      [] hi2[1] = "Unbounded" -> <<"Excluded", RelEnd(hi1)>>
      [] OTHER -> <<"Excluded", Min(RelEnd(hi1), RelStart(lo1) + RelEnd(hi2))>>
SameWindow(a, b) == a.start = b.start /\ a.end = b.end

\* C14: slicing is associative.  Whenever slice has just been called on a
\* view c1 that is itself the slice by R1 of a living view p, with a range
\* R2, the call returns a view whose start and end are those of p sliced
\* once by the composition of R1 and R2 (for every composition that is a
\* range of u64 offsets p can be sliced with).
C14_SliceAssociative ==
    last.op = "slice" =>
        \A p \in Living, lo1 \in LoBounds, hi1 \in HiBounds,
           lo2 \in LoBounds, hi2 \in HiBounds :
            LET lo == ComposedLo(lo1, lo2)
                hi == ComposedHi(lo1, hi1, hi2)
            IN (/\ ~SliceOverflows(views[p], lo1, hi1)
                /\ SameWindow(SliceOf(views[p], lo1, hi1), Operand)
                /\ IF last.res = "ok"
                   THEN SameWindow(SliceOf(Operand, lo2, hi2), Produced)
                   ELSE SliceOverflows(Operand, lo2, hi2)
                /\ lo[2] \in U64
                /\ hi[2] \in U64
                /\ ~SliceOverflows(views[p], lo, hi))
               => (/\ last.res = "ok"
                   /\ SameWindow(SliceOf(views[p], lo, hi), Produced))

\* C15: when slice has returned from a view with the root's window [0, L)
\* over a file of length L, then for all a <= b <= L the child c that
\* slice(a..b) makes of that view has len() = b - a; a read on c with a
\* buffer of n >= b - a bytes asks the OS for b - a bytes at offset a, and
\* once the OS has returned them all the next read returns 0.
C15_SliceLenThenReadAll ==
    (SliceReturned /\ Operand.start = 0 /\ Operand.end = fileLen) =>
        \A a \in 0..fileLen, b \in 0..fileLen, n \in BufLens :
            (a <= b /\ n >= b - a) =>
                LET lo == <<"Included", a>>
                    hi == <<"Excluded", b>>
                    c == SliceOf(Operand, lo, hi)
                    got == ReadAdvance(c, b - a)
                IN /\ ~SliceOverflows(Operand, lo, hi)
                   /\ ViewLen(c) = b - a
                   /\ ~ReadRemainingOverflows(c)
                   /\ ReadOffset(c, fdPos) = a
                   /\ ReadLen(c, n) = b - a
                   /\ b - a \in PRead(ReadLen(c, n), a, fileLen)
                   /\ ~ReadRemainingOverflows(got)
                   /\ PRead(ReadLen(got, n), ReadOffset(got, fdPos), fileLen) = {0}

\* C15 witness: slice has returned a non-empty child a..b, a > 0, of a view
\* with the root's window, of length b - a and within the file.
C15_Witness ==
    /\ SliceReturned
    /\ Operand.start = 0
    /\ Operand.end = fileLen
    /\ Produced.start > 0
    /\ Produced.start < Produced.end
    /\ Produced.end <= fileLen
    /\ ViewLen(Produced) = Produced.end - Produced.start

\* C16: a read with a non-empty buffer returns 0 bytes only when the view's
\* cursor is at or beyond its end, whatever has happened to the file's
\* length.  (A read that returns 0 leaves the cursor where it was.)
C16_ZeroOnlyAtWindowEnd ==
    (last.op = "read" /\ last.res = "ok" /\ last.ret = 0 /\ last.n > 0) =>
        Operand.cursor >= Operand.end

\* C17: get_bytes(start, length) either returns exactly length bytes, read
\* from the absolute offset self.start + start on, which it does only when
\* that many bytes lie in the window from there, or fails with an error,
\* which it does whenever fewer lie there; it never panics, and it changes
\* nothing of the view it is called on.
C17_GetBytesExactOrError ==
    [][last'.op = "get_bytes" =>
        LET self == views[last'.v]
            from == self.start + last'.off
            avail == IF from <= self.end THEN self.end - from ELSE 0
        IN /\ views' = views
           /\ last'.res \in {"ok", "err"}
           /\ last'.res = "ok" =>
                /\ last'.ret = last'.n
                /\ last'.n > 0 => last'.tgt = from
                /\ avail >= last'.n
           /\ avail < last'.n => last'.res = "err"]_vars

TarYielded == last.op = "tar_next" /\ last.res = "ok"

\* C18: slice_tarball yields one pair per entry, in archive order, and each
\* view's bounds are exactly [position, position + size) of its entry,
\* position being the entry's raw file position and size its entry.size(),
\* so that the view's length is the entry's size.
C18_TarballViewsExact ==
    TarYielded =>
        LET h == tar.headers[last.ret]
        IN /\ last.ret = tar.done
           /\ Produced.start = h.start
           /\ Produced.end = h.start + h.esize
           /\ ViewLen(Produced) = h.esize

====
